---- MODULE Spec2Model ----
(***************************************************************************)
(* Model of two pieces of copilot-cli:                                     *)
(*   - AppDescriber.Version (internal/pkg/describe/app.go), which reads    *)
(*     the template version of the app stack and of the app stack set and  *)
(*     returns the minimum of the two;                                     *)
(*   - the sidecar container-definition template                           *)
(*     (templates/workloads/partials/cf/sidecars.yml).                     *)
(* Strings that the code inspects character by character (version         *)
(* strings) are sequences of one-character strings.                        *)
(***************************************************************************)
EXTENDS Integers, Sequences, FiniteSets, TLC

VARIABLES
    op,                \* "idle", "version" or "compile": the operation called
    pc,                \* position inside AppDescriber.Version
    app,               \* d.app
    stackResp,         \* what d.cfn.Metadata answers for the app stack
    stackSetResp,      \* what d.cfn.Metadata answers for the app stack set
    calls,             \* provider calls and unmarshals made so far, in order
    appStackVersion,   \* local variable of Version
    appStackSetVersion,\* local variable of Version
    ret,               \* the (string, error) pair returned by Version
    logConfig,         \* .LogConfig given to the template
    sidecars,          \* .Sidecars given to the template
    out                \* the text the template produced, as a sequence of lines

vars == <<op, pc, app, stackResp, stackSetResp, calls, appStackVersion,
          appStackSetVersion, ret, logConfig, sidecars, out>>

versionVars == <<pc, app, stackResp, stackSetResp, calls, appStackVersion,
                 appStackSetVersion, ret>>

compileVars == <<logConfig, sidecars, out>>

\* Largest major, minor and patch number of the generated version strings.
MaxNum == 2

\* Longest list of sidecars given to the template.
MaxSidecars == 2

\* Longest list of mount points of one sidecar.
MaxMounts == 1

-----------------------------------------------------------------------------
(* Byte strings.                                                           *)

\* The characters used, in increasing byte order.
Alphabet ==
    <<"+", "-", ".", "0", "1", "2", "3", "4", "5", "6", "7", "8", "9",
      "a", "b", "h", "l", "p", "v">>

Ord(c) == CHOOSE i \in 1..Len(Alphabet) : Alphabet[i] = c

DigitChars == <<"0", "1", "2", "3", "4", "5", "6", "7", "8", "9">>

IsDigit(c) == \E i \in 1..Len(DigitChars) : DigitChars[i] = c

\* v[i:] of Go, with i counted from 0.
From(v, i) == SubSeq(v, i + 1, Len(v))

\* v[:i] of Go.
Upto(v, i) == SubSeq(v, 1, i)

\* Go's x < y on strings: lexicographic on bytes.
RECURSIVE StrLess(_, _)
StrLess(x, y) ==
    IF y = <<>> THEN FALSE
    ELSE IF x = <<>> THEN TRUE
    ELSE IF Head(x) # Head(y) THEN Ord(Head(x)) < Ord(Head(y))
    ELSE StrLess(Tail(x), Tail(y))

-----------------------------------------------------------------------------
(* golang.org/x/mod/semver, as called at app.go:135.                       *)

\* Number of leading digits of v.
RECURSIVE DigitRun(_)
DigitRun(v) ==
    IF v # <<>> /\ IsDigit(Head(v)) THEN 1 + DigitRun(Tail(v)) ELSE 0

NoParse == [t |-> <<>>, rest |-> <<>>, ok |-> FALSE]

parseInt(v) ==
    IF v = <<>> THEN NoParse
    ELSE IF ~IsDigit(v[1]) THEN NoParse
    ELSE LET i == DigitRun(v)
         IN  IF v[1] = "0" /\ i # 1 THEN NoParse
             ELSE [t |-> Upto(v, i), rest |-> From(v, i), ok |-> TRUE]

isIdentChar(c) == c \in {"a", "b", "h", "l", "p", "v", "-"} \/ IsDigit(c)

isBadNum(v) ==
    LET i == DigitRun(v)
    IN  i = Len(v) /\ i > 1 /\ v[1] = "0"

isNum(v) == DigitRun(v) = Len(v)

\* The loop of parsePrerelease (checkNum) and of parseBuild (~checkNum):
\* i and start are 0-based indices into v; the result is the index after the
\* last character of the section, or -1 when the section is malformed.
RECURSIVE IdentLoop(_, _, _, _)
IdentLoop(v, i, start, checkNum) ==
    IF i < Len(v) /\ (~checkNum \/ v[i + 1] # "+")
    THEN IF ~isIdentChar(v[i + 1]) /\ v[i + 1] # "." THEN 0 - 1
         ELSE IF v[i + 1] = "."
              THEN IF start = i \/ (checkNum /\ isBadNum(SubSeq(v, start + 1, i)))
                   THEN 0 - 1
                   ELSE IdentLoop(v, i + 1, i + 1, checkNum)
              ELSE IdentLoop(v, i + 1, start, checkNum)
    ELSE IF start = i \/ (checkNum /\ isBadNum(SubSeq(v, start + 1, i)))
         THEN 0 - 1
         ELSE i

parsePrerelease(v) ==
    IF v = <<>> \/ v[1] # "-" THEN NoParse
    ELSE LET i == IdentLoop(v, 1, 1, TRUE)
         IN  IF i < 0 THEN NoParse
             ELSE [t |-> Upto(v, i), rest |-> From(v, i), ok |-> TRUE]

parseBuild(v) ==
    IF v = <<>> \/ v[1] # "+" THEN NoParse
    ELSE LET i == IdentLoop(v, 1, 1, FALSE)
         IN  IF i < 0 THEN NoParse
             ELSE [t |-> Upto(v, i), rest |-> From(v, i), ok |-> TRUE]

BadVersion ==
    [major |-> <<>>, minor |-> <<>>, patch |-> <<>>, prerelease |-> <<>>,
     build |-> <<>>, ok |-> FALSE]

\* What parse does once the patch number has been read: p holds major,
\* minor and patch, v is the rest of the string.
parseTail(p, v) ==
    LET pre   == IF v # <<>> /\ v[1] = "-" THEN parsePrerelease(v)
                 ELSE [t |-> <<>>, rest |-> v, ok |-> TRUE]
        v2    == pre.rest
        bld   == IF v2 # <<>> /\ v2[1] = "+" THEN parseBuild(v2)
                 ELSE [t |-> <<>>, rest |-> v2, ok |-> TRUE]
    IN  IF ~pre.ok THEN BadVersion
        ELSE IF ~bld.ok THEN BadVersion
        ELSE IF bld.rest # <<>> THEN BadVersion
        ELSE [p EXCEPT !.prerelease = pre.t, !.build = bld.t, !.ok = TRUE]

parse(v) ==
    IF v = <<>> \/ v[1] # "v" THEN BadVersion
    ELSE LET maj == parseInt(From(v, 1))
         IN
         IF ~maj.ok THEN BadVersion
         ELSE IF maj.rest = <<>>
              THEN [BadVersion EXCEPT !.major = maj.t, !.minor = <<"0">>,
                                      !.patch = <<"0">>, !.ok = TRUE]
         ELSE IF maj.rest[1] # "." THEN BadVersion
         ELSE LET min == parseInt(From(maj.rest, 1))
              IN
              IF ~min.ok THEN BadVersion
              ELSE IF min.rest = <<>>
                   THEN [BadVersion EXCEPT !.major = maj.t, !.minor = min.t,
                                           !.patch = <<"0">>, !.ok = TRUE]
              ELSE IF min.rest[1] # "." THEN BadVersion
              ELSE LET pat == parseInt(From(min.rest, 1))
                   IN
                   IF ~pat.ok THEN BadVersion
                   ELSE parseTail([BadVersion EXCEPT !.major = maj.t,
                                                     !.minor = min.t,
                                                     !.patch = pat.t],
                                  pat.rest)

compareInt(x, y) ==
    IF x = y THEN 0
    ELSE IF Len(x) < Len(y) THEN 0 - 1
    ELSE IF Len(x) > Len(y) THEN 1
    ELSE IF StrLess(x, y) THEN 0 - 1
    ELSE 1

\* Length of the identifier x starts with (up to the next dot).
RECURSIVE IdentLen(_)
IdentLen(x) ==
    IF x # <<>> /\ Head(x) # "." THEN 1 + IdentLen(Tail(x)) ELSE 0

nextIdent(x) ==
    LET i == IdentLen(x)
    IN  [dx |-> Upto(x, i), rest |-> From(x, i)]

\* The loop of comparePrerelease.
RECURSIVE PrereleaseLoop(_, _)
PrereleaseLoop(x, y) ==
    IF x # <<>> /\ y # <<>>
    THEN LET nx == nextIdent(Tail(x))
             ny == nextIdent(Tail(y))
             dx == nx.dx
             dy == ny.dx
         IN  IF dx # dy
             THEN IF isNum(dx) # isNum(dy)
                  THEN (IF isNum(dx) THEN 0 - 1 ELSE 1)
                  ELSE IF isNum(dx) /\ Len(dx) < Len(dy) THEN 0 - 1
                  ELSE IF isNum(dx) /\ Len(dx) > Len(dy) THEN 1
                  ELSE IF StrLess(dx, dy) THEN 0 - 1
                  ELSE 1
             ELSE PrereleaseLoop(nx.rest, ny.rest)
    ELSE IF x = <<>> THEN 0 - 1
    ELSE 1

comparePrerelease(x, y) ==
    IF x = y THEN 0
    ELSE IF x = <<>> THEN 1
    ELSE IF y = <<>> THEN 0 - 1
    ELSE PrereleaseLoop(x, y)

Compare(v, w) ==
    LET pv == parse(v)
        pw == parse(w)
    IN  IF ~pv.ok /\ ~pw.ok THEN 0
        ELSE IF ~pv.ok THEN 0 - 1
        ELSE IF ~pw.ok THEN 1
        ELSE IF compareInt(pv.major, pw.major) # 0
             THEN compareInt(pv.major, pw.major)
        ELSE IF compareInt(pv.minor, pw.minor) # 0
             THEN compareInt(pv.minor, pw.minor)
        ELSE IF compareInt(pv.patch, pw.patch) # 0
             THEN compareInt(pv.patch, pw.patch)
        ELSE comparePrerelease(pv.prerelease, pw.prerelease)

-----------------------------------------------------------------------------
(* The collaborators of AppDescriber.Version and the inputs of the model.  *)

\* Decimal text of n.
RECURSIVE NumStr(_)
NumStr(n) ==
    IF n < 10 THEN <<DigitChars[n + 1]>>
    ELSE NumStr(n \div 10) \o <<DigitChars[(n % 10) + 1]>>

\* vMAJOR.MINOR.PATCH for all numbers up to MaxNum.
CoreVersions ==
    { <<"v">> \o NumStr(a) \o <<".">> \o NumStr(b) \o <<".">> \o NumStr(c) :
        a \in 0..MaxNum, b \in 0..MaxNum, c \in 0..MaxNum }

\* Other values of the TemplateVersion field: empty, without the leading v,
\* multi-digit numbers, shortened, pre-release, build metadata, malformed.
OtherVersions ==
    { <<>>,
      <<"1", ".", "0", ".", "0">>,
      <<"1", ".", "2", ".", "0">>,
      <<"1", ".", "3", ".", "0">>,
      <<"v", "1", ".", "9", ".", "0">>,
      <<"v", "1", ".", "1", "0", ".", "0">>,
      <<"v", "0">>,
      <<"v", "1", ".", "2">>,
      <<"v", "0", ".", "0", ".", "0", "-", "a", "l", "p", "h", "a">>,
      <<"v", "1", ".", "0", ".", "0", "-", "a", "l", "p", "h", "a">>,
      <<"v", "1", ".", "0", ".", "0", "-", "a", "l", "p", "h", "a", ".", "1">>,
      <<"v", "1", ".", "0", ".", "0", "-", "2">>,
      <<"v", "1", ".", "0", ".", "0", "-", "1", "0">>,
      <<"v", "0", ".", "0", ".", "0", "+", "b", "1">>,
      <<"v", "1", ".", "0", ".", "0", "+", "b", "1">>,
      <<"v", "0", "1", ".", "0", ".", "0">>,
      <<"v", "1", ".", "0", ".", "0", "-">>,
      <<"a", "l", "p", "h", "a">> }

TemplateVersions == CoreVersions \cup OtherVersions

\* A metadata document: not parseable as YAML, or a mapping that may hold
\* the TemplateVersion key.
Documents ==
    { [wellFormed |-> FALSE, hasVersion |-> FALSE, version |-> <<>>],
      [wellFormed |-> TRUE, hasVersion |-> FALSE, version |-> <<>>] }
    \cup { [wellFormed |-> TRUE, hasVersion |-> TRUE, version |-> v] :
             v \in TemplateVersions }

\* The empty string d.cfn.Metadata returns together with an error.
NoDocument == [wellFormed |-> TRUE, hasVersion |-> FALSE, version |-> <<>>]

ProviderErrors == {"stack does not exist", "throttled"}

\* What d.cfn.Metadata returns: (document, nil) or ("", err).
Responses ==
    { [err |-> "", doc |-> d] : d \in Documents }
    \cup { [err |-> e, doc |-> NoDocument] : e \in ProviderErrors }

Apps == {"phonetool"}

NameForAppStack(a) == a \o "-infrastructure-roles"

NameForAppStackSet(a) == a \o "-infrastructure"

LegacyAppTemplateVersion == <<"v", "0", ".", "0", ".", "0">>

YamlError == "yaml: unmarshal errors"

\* yaml.Unmarshal into struct{ TemplateVersion string }: a missing key
\* leaves the zero value.
Unmarshal(doc) ==
    IF ~doc.wellFormed
    THEN [err |-> YamlError, TemplateVersion |-> <<>>]
    ELSE [err |-> "",
          TemplateVersion |-> IF doc.hasVersion THEN doc.version ELSE <<>>]

\* The nil error.
NoError == [context |-> "", name |-> "", wrapped |-> ""]

\* fmt.Errorf("<context> %s: %w", name, err)
Errorf(context, name, err) ==
    [context |-> context, name |-> name, wrapped |-> err]

NoReturn == [version |-> <<>>, err |-> NoError]

\* Lines 111, 114, 124 and 127: the four errors Version returns.
StackFetchError(a, err) ==
    Errorf("get metadata for app stack", NameForAppStack(a), err)

StackUnmarshalError(a, err) ==
    Errorf("unmarshal Metadata property for app stack", NameForAppStack(a), err)

StackSetFetchError_WrongSource(a, err) ==
    Errorf("get metadata for app stack", NameForAppStack(a), err)

StackSetFetchError(a, err) ==
    Errorf("get metadata for app stack set", NameForAppStackSet(a), err)

StackSetUnmarshalError_WrongSource(a, err) ==
    Errorf("unmarshal Metadata property for app stack", NameForAppStack(a), err)

StackSetUnmarshalError(a, err) ==
    Errorf("unmarshal Metadata property for app stack set",
           NameForAppStackSet(a), err)

VersionOrLegacy_NoDefault(v) == v

\* Lines 116-119 and 129-132: an empty TemplateVersion is a legacy template.
VersionOrLegacy(v) == IF v = <<>> THEN LegacyAppTemplateVersion ELSE v

-----------------------------------------------------------------------------
(* AppDescriber.Version, one action per provider call or unmarshal.        *)

Init ==
    /\ op = "idle"
    /\ pc = "idle"
    /\ app = ""
    /\ stackResp = [err |-> "", doc |-> NoDocument]
    /\ stackSetResp = [err |-> "", doc |-> NoDocument]
    /\ calls = <<>>
    /\ appStackVersion = <<>>
    /\ appStackSetVersion = <<>>
    /\ ret = NoReturn
    /\ logConfig = [present |-> FALSE, Image |-> "", EnableMetadata |-> "",
                    ConfigFile |-> ""]
    /\ sidecars = <<>>
    /\ out = <<>>

\* A call of Version on a describer of application a, with the answers the
\* provider is going to give.
CallVersion ==
    /\ op = "idle"
    /\ \E a \in Apps, r1 \in Responses, r2 \in Responses :
         /\ app' = a
         /\ stackResp' = r1
         /\ stackSetResp' = r2
    /\ op' = "version"
    /\ pc' = "getStackMetadata"
    /\ UNCHANGED <<calls, appStackVersion, appStackSetVersion, ret, compileVars>>

\* GetStackMetadata going on to the stack set after a failed fetch.
GetStackMetadata_NoEarlyReturn ==
    /\ op = "version" /\ pc = "getStackMetadata"
    /\ calls' = Append(calls, [call |-> "Metadata", kind |-> "stack",
                               name |-> NameForAppStack(app)])
    /\ IF stackResp.err # ""
       THEN /\ ret' = [version |-> <<>>,
                       err |-> StackFetchError(app, stackResp.err)]
            /\ pc' = "getStackSetMetadata"
       ELSE /\ pc' = "unmarshalStack"
            /\ UNCHANGED ret
    /\ UNCHANGED <<op, app, stackResp, stackSetResp, appStackVersion,
                   appStackSetVersion, compileVars>>

\* Lines 108-112.
GetStackMetadata ==
    /\ op = "version" /\ pc = "getStackMetadata"
    /\ calls' = Append(calls, [call |-> "Metadata", kind |-> "stack",
                               name |-> NameForAppStack(app)])
    /\ IF stackResp.err # ""
       THEN /\ ret' = [version |-> <<>>,
                       err |-> StackFetchError(app, stackResp.err)]
            /\ pc' = "done"
       ELSE /\ pc' = "unmarshalStack"
            /\ UNCHANGED ret
    /\ UNCHANGED <<op, app, stackResp, stackSetResp, appStackVersion,
                   appStackSetVersion, compileVars>>

\* Lines 113-119.
UnmarshalStack ==
    /\ op = "version" /\ pc = "unmarshalStack"
    /\ calls' = Append(calls, [call |-> "Unmarshal", kind |-> "stack",
                               name |-> NameForAppStack(app)])
    /\ LET stackMetadata == Unmarshal(stackResp.doc)
       IN  IF stackMetadata.err # ""
           THEN /\ ret' = [version |-> <<>>,
                           err |-> StackUnmarshalError(app, stackMetadata.err)]
                /\ pc' = "done"
                /\ UNCHANGED appStackVersion
           ELSE /\ appStackVersion' =
                       VersionOrLegacy(stackMetadata.TemplateVersion)
                /\ pc' = "getStackSetMetadata"
                /\ UNCHANGED ret
    /\ UNCHANGED <<op, app, stackResp, stackSetResp, appStackSetVersion,
                   compileVars>>

\* Lines 121-125.
GetStackSetMetadata ==
    /\ op = "version" /\ pc = "getStackSetMetadata"
    /\ calls' = Append(calls, [call |-> "Metadata", kind |-> "stack set",
                               name |-> NameForAppStackSet(app)])
    /\ IF stackSetResp.err # ""
       THEN /\ ret' = [version |-> <<>>,
                       err |-> StackSetFetchError(app, stackSetResp.err)]
            /\ pc' = "done"
       ELSE /\ pc' = "unmarshalStackSet"
            /\ UNCHANGED ret
    /\ UNCHANGED <<op, app, stackResp, stackSetResp, appStackVersion,
                   appStackSetVersion, compileVars>>

\* Lines 126-132.
UnmarshalStackSet ==
    /\ op = "version" /\ pc = "unmarshalStackSet"
    /\ calls' = Append(calls, [call |-> "Unmarshal", kind |-> "stack set",
                               name |-> NameForAppStackSet(app)])
    /\ LET stackSetMetadata == Unmarshal(stackSetResp.doc)
       IN  IF stackSetMetadata.err # ""
           THEN /\ ret' = [version |-> <<>>,
                           err |-> StackSetUnmarshalError(app, stackSetMetadata.err)]
                /\ pc' = "done"
                /\ UNCHANGED appStackSetVersion
           ELSE /\ appStackSetVersion' =
                       VersionOrLegacy(stackSetMetadata.TemplateVersion)
                /\ pc' = "minVersion"
                /\ UNCHANGED ret
    /\ UNCHANGED <<op, app, stackResp, stackSetResp, appStackVersion,
                   compileVars>>

MinVersion_Flipped(v, w) == IF Compare(v, w) < 0 THEN w ELSE v

MinVersion_StackOnly(v, w) == v

\* Lines 134-137: the minimum of the two versions.
MinVersion(v, w) == IF Compare(v, w) > 0 THEN w ELSE v

\* Lines 134-138.
ReturnMinVersion ==
    /\ op = "version" /\ pc = "minVersion"
    /\ ret' = [version |-> MinVersion(appStackVersion, appStackSetVersion),
               err |-> NoError]
    /\ pc' = "done"
    /\ UNCHANGED <<op, app, stackResp, stackSetResp, calls, appStackVersion,
                   appStackSetVersion, compileVars>>

-----------------------------------------------------------------------------
(* The values given to the sidecar template.                               *)

\* A nil pointer, an unset optional field.
Unset == "<nil>"

\* One line of the produced text: `indent` leading spaces, then "- " when
\* the line opens a list item, then "key: value" (value "" for "key:").
Line(indent, item, key, value) ==
    [indent |-> indent, item |-> item, key |-> key, value |-> value]

NoLogConfig ==
    [present |-> FALSE, Image |-> "", EnableMetadata |-> "", ConfigFile |-> ""]

LogConfigs ==
    {NoLogConfig}
    \cup { [present |-> TRUE, Image |-> "amazon/aws-for-fluent-bit:latest",
            EnableMetadata |-> e, ConfigFile |-> f] :
             e \in {"true", "false"}, f \in {Unset, "/extra.conf"} }

\* The keys a Variables or Secrets map may hold, in the sorted order in
\* which a template ranges over a map.
KeyOrder == <<"DB_HOST", "LOG_LEVEL", "TOKEN">>

SortedKeys(m) == SelectSeq(KeyOrder, LAMBDA k : k \in DOMAIN m)

VariableMaps ==
    UNION { [ks -> {"debug"}] : ks \in SUBSET {"DB_HOST", "LOG_LEVEL"} }

SecretMaps ==
    UNION { [ks -> {"arn:aws:ssm:token"}] : ks \in SUBSET {"TOKEN"} }

MountPointValues ==
    { [SourceVolume |-> "data", ReadOnly |-> "false", ContainerPath |-> "/data"],
      [SourceVolume |-> "cache", ReadOnly |-> "true", ContainerPath |-> "/cache"] }

MountPointLists ==
    UNION { [1..n -> MountPointValues] : n \in 0..MaxMounts }

\* Every combination of the optional fields of one sidecar.
Sidecars ==
    [ Name : {"nginx", "envoy"},
      Image : {"nginx:latest"},
      Essential : {Unset, "false"},
      Port : {Unset, "8080"},
      Protocol : {Unset, "udp"},
      Variables : VariableMaps,
      Secrets : SecretMaps,
      CredsParam : {Unset, "arn:aws:secretsmanager:creds"},
      MountPoints : MountPointLists ]

\* The sidecars that lists of two and more are made of.
SimpleSidecars ==
    { s \in Sidecars :
        /\ s.Essential = Unset /\ s.Protocol = Unset /\ s.CredsParam = Unset
        /\ s.Secrets = << >>
        /\ DOMAIN s.Variables \in {{}, {"LOG_LEVEL"}}
        /\ Len(s.MountPoints) = 0 }

SidecarLists ==
    UNION { [1..n -> IF n = 1 THEN Sidecars ELSE SimpleSidecars] :
              n \in 0..MaxSidecars }

\* The truth of a template's {{if x}} for a pointer, a map and a slice.
IsSet(x) == x # Unset

NonEmptyMap(m) == DOMAIN m # {}

NonEmptySeq(q) == Len(q) > 0

\* printf "%q" of a value without characters to escape.
Quoted(v) == "\"" \o v \o "\""

\* jsonMountPoints: the list as one JSON text.
RECURSIVE JsonEntries(_)
JsonEntries(mps) ==
    IF mps = <<>> THEN ""
    ELSE "{\"SourceVolume\":" \o Quoted(Head(mps).SourceVolume)
         \o ",\"ReadOnly\":" \o Head(mps).ReadOnly
         \o ",\"ContainerPath\":" \o Quoted(Head(mps).ContainerPath) \o "}"
         \o (IF Tail(mps) = <<>> THEN "" ELSE ",")
         \o JsonEntries(Tail(mps))

jsonMountPoints(mps) == "[" \o JsonEntries(mps) \o "]"

\* The concatenation of f[1], ..., f[n].
RECURSIVE Concat(_, _)
Concat(f, n) == IF n = 0 THEN <<>> ELSE Concat(f, n - 1) \o f[n]

-----------------------------------------------------------------------------
(* templates/workloads/partials/cf/sidecars.yml                            *)

\* Lines 10-15 and 42-47.
LogConfigurationSection ==
    << Line(2, FALSE, "LogConfiguration", ""),
       Line(4, FALSE, "LogDriver", "awslogs"),
       Line(4, FALSE, "Options", ""),
       Line(6, FALSE, "awslogs-region", "!Ref AWS::Region"),
       Line(6, FALSE, "awslogs-group", "!Ref LogGroup"),
       Line(6, FALSE, "awslogs-stream-prefix", "copilot") >>

\* Lines 1-16.
LogRouterBlock(lc) ==
    IF lc.present
    THEN << Line(0, TRUE, "Name", "firelens_log_router"),
            Line(2, FALSE, "Image", lc.Image),
            Line(2, FALSE, "FirelensConfiguration", ""),
            Line(4, FALSE, "Type", "fluentbit"),
            Line(4, FALSE, "Options", ""),
            Line(6, FALSE, "enable-ecs-log-metadata", lc.EnableMetadata) >>
         \o (IF IsSet(lc.ConfigFile)
             THEN << Line(6, FALSE, "config-file-type", "file"),
                     Line(6, FALSE, "config-file-value", lc.ConfigFile) >>
             ELSE <<>>)
         \o LogConfigurationSection
    ELSE <<>>

\* Lines 18-19.
NameImageSection(s) ==
    << Line(0, TRUE, "Name", s.Name), Line(2, FALSE, "Image", s.Image) >>

\* Lines 19-20.
EssentialSection(s) ==
    IF IsSet(s.Essential)
    THEN << Line(2, FALSE, "Essential", s.Essential) >>
    ELSE <<>>

\* The protocol emitted whether or not the port is set.
PortMappingsSection_ProtocolOutside(s) ==
    (IF IsSet(s.Port)
     THEN << Line(2, FALSE, "PortMappings", ""),
             Line(4, TRUE, "ContainerPort", s.Port) >>
     ELSE <<>>)
    \o (IF IsSet(s.Protocol)
        THEN << Line(6, FALSE, "Protocol", s.Protocol) >>
        ELSE <<>>)

\* Lines 20-23.
PortMappingsSection(s) ==
    IF IsSet(s.Port)
    THEN << Line(2, FALSE, "PortMappings", ""),
            Line(4, TRUE, "ContainerPort", s.Port) >>
         \o (IF IsSet(s.Protocol)
             THEN << Line(6, FALSE, "Protocol", s.Protocol) >>
             ELSE <<>>)
    ELSE <<>>

\* Lines 26-29, for one key of the map.
VariableEntry(m, k) ==
    << Line(2, TRUE, "Name", k), Line(4, FALSE, "Value", Quoted(m[k])) >>

\* Lines 24-34.
EnvironmentSection(s) ==
    IF NonEmptyMap(s.Variables)
    THEN << Line(2, FALSE, "Environment", "") >>
         \o LET ks == SortedKeys(s.Variables)
            IN  Concat([i \in 1..Len(ks) |-> VariableEntry(s.Variables, ks[i])],
                       Len(ks))
         \o (IF NonEmptySeq(s.MountPoints)
             THEN << Line(2, TRUE, "Name", "COPILOT_MOUNT_POINTS"),
                     Line(4, FALSE, "Value",
                          "'" \o jsonMountPoints(s.MountPoints) \o "'") >>
             ELSE <<>>)
    ELSE <<>>

\* Lines 37-40, for one key of the map.
SecretEntry(m, k) ==
    << Line(2, TRUE, "Name", k), Line(4, FALSE, "ValueFrom", m[k]) >>

\* Lines 35-41.
SecretsSection(s) ==
    IF NonEmptyMap(s.Secrets)
    THEN << Line(2, FALSE, "Secrets", "") >>
         \o LET ks == SortedKeys(s.Secrets)
            IN  Concat([i \in 1..Len(ks) |-> SecretEntry(s.Secrets, ks[i])],
                       Len(ks))
    ELSE <<>>

\* Lines 48-51.
RepositoryCredentialsSection(s) ==
    IF IsSet(s.CredsParam)
    THEN << Line(2, FALSE, "RepositoryCredentials", ""),
            Line(4, FALSE, "CredentialsParameter", s.CredsParam) >>
    ELSE <<>>

\* Lines 54-58, for one mount point.
MountPointEntry(mp) ==
    << Line(4, TRUE, "SourceVolume", mp.SourceVolume),
       Line(6, FALSE, "ReadOnly", mp.ReadOnly),
       Line(6, FALSE, "ContainerPath", "'" \o mp.ContainerPath \o "'") >>

\* Lines 52-59.
MountPointsSection(s) ==
    IF NonEmptySeq(s.MountPoints)
    THEN << Line(2, FALSE, "MountPoints", "") >>
         \o Concat([i \in 1..Len(s.MountPoints) |->
                       MountPointEntry(s.MountPoints[i])],
                   Len(s.MountPoints))
    ELSE <<>>

\* The credentials emitted before the log configuration.
SidecarBlock_CredsFirst(s) ==
    NameImageSection(s)
    \o EssentialSection(s)
    \o PortMappingsSection(s)
    \o EnvironmentSection(s)
    \o SecretsSection(s)
    \o RepositoryCredentialsSection(s)
    \o LogConfigurationSection
    \o MountPointsSection(s)

\* Lines 18-59: the body of the range, for one sidecar.
SidecarBlock(s) ==
    NameImageSection(s)
    \o EssentialSection(s)
    \o PortMappingsSection(s)
    \o EnvironmentSection(s)
    \o SecretsSection(s)
    \o LogConfigurationSection
    \o RepositoryCredentialsSection(s)
    \o MountPointsSection(s)

\* The sidecars rendered last to first.
SidecarBlocks_Reversed(scs) ==
    Concat([i \in 1..Len(scs) |-> SidecarBlock(scs[Len(scs) + 1 - i])], Len(scs))

\* Lines 17-60: the range over .Sidecars.
SidecarBlocks(scs) ==
    Concat([i \in 1..Len(scs) |-> SidecarBlock(scs[i])], Len(scs))

\* The whole template.
Render(lc, scs) == LogRouterBlock(lc) \o SidecarBlocks(scs)

\* One execution of the template.
Compile ==
    /\ op = "idle"
    /\ \E lc \in LogConfigs, scs \in SidecarLists :
         /\ logConfig' = lc
         /\ sidecars' = scs
         /\ out' = Render(lc, scs)
    /\ op' = "compile"
    /\ UNCHANGED versionVars

-----------------------------------------------------------------------------

Next ==
    \/ CallVersion
    \/ GetStackMetadata
    \/ UnmarshalStack
    \/ GetStackSetMetadata
    \/ UnmarshalStackSet
    \/ ReturnMinVersion
    \/ Compile

Spec == Init /\ [][Next]_vars

-----------------------------------------------------------------------------
(* Semantic versions and their precedence as semver.org defines them, on   *)
(* numbers: what the properties of Version are stated against.             *)

\* The pieces of s between the occurrences of c.
RECURSIVE Fields(_, _)
Fields(s, c) ==
    IF \A i \in 1..Len(s) : s[i] # c THEN <<s>>
    ELSE LET k == CHOOSE i \in 1..Len(s) :
                     s[i] = c /\ \A j \in 1..(i - 1) : s[j] # c
         IN  <<SubSeq(s, 1, k - 1)>> \o Fields(SubSeq(s, k + 1, Len(s)), c)

\* s up to the first c (all of s without one), and what follows that c.
Before(s, c) == Fields(s, c)[1]

After(s, c) == SubSeq(s, Len(Before(s, c)) + 2, Len(s))

Has(s, c) == \E i \in 1..Len(s) : s[i] = c

AllDigits(id) == id # <<>> /\ \A i \in 1..Len(id) : IsDigit(id[i])

NumericId(id) == AllDigits(id) /\ (Len(id) = 1 \/ id[1] # "0")

DigitValue(c) == (CHOOSE i \in 1..10 : DigitChars[i] = c) - 1

RECURSIVE Value(_)
Value(id) ==
    IF id = <<>> THEN 0
    ELSE 10 * Value(SubSeq(id, 1, Len(id) - 1)) + DigitValue(id[Len(id)])

IdChars(id) ==
    /\ id # <<>>
    /\ \A i \in 1..Len(id) :
         id[i] \in {"a", "b", "h", "l", "p", "v", "-"} \/ IsDigit(id[i])

PrereleaseId(id) == IdChars(id) /\ (AllDigits(id) => NumericId(id))

\* The parts of MAJOR.MINOR.PATCH[-PRERELEASE][+BUILD].
CorePart(s) == Before(Before(s, "+"), "-")

PrereleasePart(s) == After(Before(s, "+"), "-")

HasPrerelease(s) == Has(Before(s, "+"), "-")

\* s is a semantic version MAJOR.MINOR.PATCH[-PRERELEASE][+BUILD].
FullSemVer(s) ==
    /\ Len(Fields(CorePart(s), ".")) = 3
    /\ \A i \in 1..3 : NumericId(Fields(CorePart(s), ".")[i])
    /\ HasPrerelease(s) =>
         \A i \in 1..Len(Fields(PrereleasePart(s), ".")) :
            PrereleaseId(Fields(PrereleasePart(s), ".")[i])
    /\ Has(s, "+") =>
         \A i \in 1..Len(Fields(After(s, "+"), ".")) :
            IdChars(Fields(After(s, "+"), ".")[i])

\* s is MAJOR or MAJOR.MINOR, the shortened forms Go accepts after the v.
ShortSemVer(s) ==
    /\ ~Has(s, "-") /\ ~Has(s, "+")
    /\ Len(Fields(s, ".")) \in {1, 2}
    /\ \A i \in 1..Len(Fields(s, ".")) : NumericId(Fields(s, ".")[i])

\* s is a version string semver.Compare orders: a v, then a version.
GoSemVer(s) ==
    s # <<>> /\ s[1] = "v" /\ (FullSemVer(Tail(s)) \/ ShortSemVer(Tail(s)))

\* s reads as a semantic version, with the leading v or without it.
ReadsAsSemVer(s) ==
    \/ GoSemVer(s)
    \/ FullSemVer(s)

WithoutV(s) == IF s # <<>> /\ s[1] = "v" THEN Tail(s) ELSE s

\* The major, minor and patch numbers of a version string.
Numbers(s) ==
    LET f == Fields(CorePart(WithoutV(s)), ".")
    IN  [i \in 1..3 |-> IF i <= Len(f) THEN Value(f[i]) ELSE 0]

PrereleaseIds(s) ==
    IF HasPrerelease(WithoutV(s))
    THEN Fields(PrereleasePart(WithoutV(s)), ".")
    ELSE <<>>

IdLess(x, y) ==
    IF AllDigits(x) /\ AllDigits(y) THEN Value(x) < Value(y)
    ELSE IF AllDigits(x) THEN TRUE
    ELSE IF AllDigits(y) THEN FALSE
    ELSE StrLess(x, y)

\* p precedes q as lists of pre-release identifiers; the empty list (a
\* release) comes after every pre-release.
PrereleasePrecedes(p, q) ==
    IF p = <<>> THEN FALSE
    ELSE IF q = <<>> THEN TRUE
    ELSE \/ \E k \in 1..Len(p) :
              /\ k <= Len(q)
              /\ \A j \in 1..(k - 1) : p[j] = q[j]
              /\ IdLess(p[k], q[k])
         \/ /\ Len(p) < Len(q)
            /\ \A j \in 1..Len(p) : p[j] = q[j]

\* a has lower precedence than b.
Precedes(a, b) ==
    LET m == Numbers(a)
        n == Numbers(b)
    IN  \/ m[1] < n[1]
        \/ m[1] = n[1] /\ m[2] < n[2]
        \/ m[1] = n[1] /\ m[2] = n[2] /\ m[3] < n[3]
        \/ m = n /\ PrereleasePrecedes(PrereleaseIds(a), PrereleaseIds(b))

\* a and b are versions of the same precedence.
SamePrecedence(a, b) == ~Precedes(a, b) /\ ~Precedes(b, a)

-----------------------------------------------------------------------------
(* Properties of AppDescriber.Version.                                     *)

Returned == op = "version" /\ pc = "done"

\* Both documents were fetched and unmarshalled without error.
BothParsed ==
    /\ stackResp.err = "" /\ stackResp.doc.wellFormed
    /\ stackSetResp.err = "" /\ stackSetResp.doc.wellFormed

\* The TemplateVersion fields of the two documents ("" when absent).
StackField == Unmarshal(stackResp.doc).TemplateVersion

StackSetField == Unmarshal(stackSetResp.doc).TemplateVersion

\* r is one of a and b, and neither of them precedes it.
IsLesserOf(r, a, b) ==
    /\ r \in {a, b}
    /\ ~Precedes(a, r)
    /\ ~Precedes(b, r)

WithEmptyStack(o) ==
    IF o = <<>> THEN LegacyAppTemplateVersion
    ELSE IF ~GoSemVer(o) THEN o
    ELSE IF Precedes(o, LegacyAppTemplateVersion) THEN o
    ELSE LegacyAppTemplateVersion

WithEmptyStackSet(o) ==
    IF ~GoSemVer(o) THEN o
    ELSE IF Precedes(LegacyAppTemplateVersion, o) THEN LegacyAppTemplateVersion
    ELSE o

FetchFailed(kind) ==
    /\ \E i \in 1..Len(calls) : calls[i].call = "Metadata" /\ calls[i].kind = kind
    /\ IF kind = "stack" THEN stackResp.err # "" ELSE stackSetResp.err # ""

\* C3: when the provider fails the fetch of a source, Version returns the
\* empty string and an error that wraps the provider's error and names that
\* source; and an error never comes with a version.
C3_FetchErrorNamesSource ==
    Returned =>
      /\ FetchFailed("stack") =>
           /\ ret.version = <<>>
           /\ ret.err.context = "get metadata for app stack"
           /\ ret.err.name = NameForAppStack(app)
           /\ ret.err.wrapped = stackResp.err
      /\ FetchFailed("stack set") =>
           /\ ret.version = <<>>
           /\ ret.err.context = "get metadata for app stack set"
           /\ ret.err.name = NameForAppStackSet(app)
           /\ ret.err.wrapped = stackSetResp.err
      /\ ret.err # NoError => ret.version = <<>>

\* The stack was read and carries a version, the stack set fetch failed.
C3_Witness ==
    /\ Returned
    /\ stackResp.err = "" /\ GoSemVer(StackField)
    /\ FetchFailed("stack set")
    /\ ret.err.context = "get metadata for app stack set"

\* An Unmarshal of the given kind was made on a malformed document.
UnmarshalFailed(kind) ==
    /\ \E i \in 1..Len(calls) : calls[i].call = "Unmarshal" /\ calls[i].kind = kind
    /\ IF kind = "stack" THEN ~stackResp.doc.wellFormed
       ELSE ~stackSetResp.doc.wellFormed

\* C4: when a source's document cannot be unmarshalled, Version returns the
\* empty string and an unmarshal error that names that source and not the
\* other one.
C4_ParseErrorNamesSource ==
    Returned =>
      /\ UnmarshalFailed("stack") =>
           /\ ret.version = <<>>
           /\ ret.err.context = "unmarshal Metadata property for app stack"
           /\ ret.err.name = NameForAppStack(app)
           /\ ret.err.name # NameForAppStackSet(app)
           /\ ret.err.wrapped = YamlError
      /\ UnmarshalFailed("stack set") =>
           /\ ret.version = <<>>
           /\ ret.err.context = "unmarshal Metadata property for app stack set"
           /\ ret.err.name = NameForAppStackSet(app)
           /\ ret.err.name # NameForAppStack(app)
           /\ ret.err.wrapped = YamlError

\* The stack's document was fine and the stack set's was malformed.
C4_Witness ==
    /\ Returned
    /\ stackResp.err = "" /\ stackResp.doc.wellFormed
    /\ UnmarshalFailed("stack set")
    /\ ret.err.context = "unmarshal Metadata property for app stack set"

\* v is a non-empty TemplateVersion that does not read as a version at all.
NotAVersion(v) == v # <<>> /\ ~ReadsAsSemVer(v)

InvalidForGo(v) == v # <<>> /\ ~GoSemVer(v)

FullCallOrder ==
    << [call |-> "Metadata", kind |-> "stack", name |-> NameForAppStack(app)],
       [call |-> "Unmarshal", kind |-> "stack", name |-> NameForAppStack(app)],
       [call |-> "Metadata", kind |-> "stack set",
        name |-> NameForAppStackSet(app)],
       [call |-> "Unmarshal", kind |-> "stack set",
        name |-> NameForAppStackSet(app)] >>

\* The step that follows n reads and unmarshals: a call that has not
\* returned is at that step, whose action has no other guard.
StepAfter ==
    [n \in 0..4 |->
       <<"getStackMetadata", "unmarshalStack", "getStackSetMetadata",
         "unmarshalStackSet", "minVersion">>[n + 1]]

StackSetFetched ==
    \E i \in 1..Len(calls) : calls[i].call = "Metadata" /\ calls[i].kind = "stack set"

\* C10: in a call of Version each source is fetched at most once, the stack
\* is fetched and unmarshalled before the stack set is fetched, the stack
\* set is not fetched when the stack's fetch or unmarshal failed, and the
\* call goes on until it returns, with a version or with an error.
C10_NoRetryStackFirst ==
    op = "version" =>
      /\ Len(calls) <= 4
      /\ calls = SubSeq(FullCallOrder, 1, Len(calls))
      /\ StackSetFetched => (stackResp.err = "" /\ stackResp.doc.wellFormed)
      /\ pc # "done" => pc = StepAfter[Len(calls)]
      /\ pc = "done" => (ret.err = NoError) # (ret.version = <<>>)

\* The stack's document was malformed: the call ended after one fetch.
C10_Witness ==
    /\ Returned
    /\ ~stackResp.doc.wellFormed
    /\ stackSetResp.err # ""
    /\ Len(calls) = 2
    /\ ret.err # NoError

\* The two descriptions of the strings semver.Compare accepts agree.
GoSemVerIsParseOk == \A v \in TemplateVersions : GoSemVer(v) <=> parse(v).ok

-----------------------------------------------------------------------------
(* Reading the produced text back: container blocks and their sections.    *)

Compiled == op = "compile"

\* The column at which the key of a line starts.
KeyColumn(l) == l.indent + (IF l.item THEN 2 ELSE 0)

\* The lines that open an element of the top-level list.
BlockStarts(o) == { i \in 1..Len(o) : o[i].indent = 0 /\ o[i].item }

NumBlocks(o) == Cardinality(BlockStarts(o))

BlockStart(o, j) ==
    CHOOSE i \in BlockStarts(o) :
        Cardinality({ k \in BlockStarts(o) : k <= i }) = j

\* The j-th container block of the text.
Block(o, j) ==
    SubSeq(o, BlockStart(o, j),
           IF j = NumBlocks(o) THEN Len(o) ELSE BlockStart(o, j + 1) - 1)

\* The keys of a block's own mapping, in the order of the text.
SectionLines(b) == SelectSeq(b, LAMBDA l : KeyColumn(l) = 2)

Sections(b) == [i \in 1..Len(SectionLines(b)) |-> SectionLines(b)[i].key]

HasSection(b, key) == \E i \in 1..Len(Sections(b)) : Sections(b)[i] = key

CountSection(b, key) ==
    Cardinality({ i \in 1..Len(Sections(b)) : Sections(b)[i] = key })

\* The lines below the section `key` of block b, up to the next section.
SectionBody(b, key) ==
    LET at   == CHOOSE i \in 1..Len(b) : KeyColumn(b[i]) = 2 /\ b[i].key = key
        next == { i \in (at + 1)..Len(b) : KeyColumn(b[i]) = 2 }
        last == IF next = {} THEN Len(b)
                ELSE (CHOOSE i \in next : \A k \in next : i <= k) - 1
    IN  SubSeq(b, at + 1, last)

\* The lines of block b with the given key, at any depth.
LinesWithKey(b, key) == { i \in 1..Len(b) : b[i].key = key }

\* The Name values of the entries of the Environment section of block b.
EnvironmentNames(b) ==
    LET body == SectionBody(b, "Environment")
        at   == SelectSeq(body, LAMBDA l : l.indent = 2 /\ l.item /\ l.key = "Name")
    IN  [i \in 1..Len(at) |-> at[i].value]

\* The block of the i-th sidecar: the log router's block comes first.
SidecarBlockOf(i) == Block(out, i + (IF logConfig.present THEN 1 ELSE 0))

BlockCountRight ==
    NumBlocks(out) = Len(sidecars) + (IF logConfig.present THEN 1 ELSE 0)

-----------------------------------------------------------------------------
(* Properties of the sidecar template.                                     *)

\* C6: a sidecar with mount points, with or without variables, has an
\* Environment section holding one entry per variable and exactly one
\* COPILOT_MOUNT_POINTS entry; a sidecar with neither has no Environment
\* section.
C6_MountPointsInEnvironment ==
    Compiled =>
      \A i \in 1..Len(sidecars) :
        LET s == sidecars[i]
            b == SidecarBlockOf(i)
        IN  /\ Len(s.MountPoints) > 0 =>
                 /\ CountSection(b, "Environment") = 1
                 /\ Len(EnvironmentNames(b)) = Cardinality(DOMAIN s.Variables) + 1
                 /\ Cardinality({ k \in 1..Len(EnvironmentNames(b)) :
                        EnvironmentNames(b)[k] = "COPILOT_MOUNT_POINTS" }) = 1
            /\ (Len(s.MountPoints) = 0 /\ DOMAIN s.Variables = {}) =>
                 ~HasSection(b, "Environment")

\* C7: without a port a sidecar block has no PortMappings and no Protocol;
\* with a port it has exactly one PortMappings section holding exactly one
\* ContainerPort, equal to the port, and a Protocol exactly when the
\* protocol is set.
C7_PortMappings ==
    Compiled =>
      \A i \in 1..Len(sidecars) :
        LET s == sidecars[i]
            b == SidecarBlockOf(i)
        IN  /\ s.Port = Unset =>
                 /\ ~HasSection(b, "PortMappings")
                 /\ LinesWithKey(b, "ContainerPort") = {}
                 /\ LinesWithKey(b, "Protocol") = {}
            /\ s.Port # Unset =>
                 /\ CountSection(b, "PortMappings") = 1
                 /\ Cardinality(LinesWithKey(b, "ContainerPort")) = 1
                 /\ SectionBody(b, "PortMappings") =
                      << Line(4, TRUE, "ContainerPort", s.Port) >>
                      \o (IF s.Protocol # Unset
                          THEN << Line(6, FALSE, "Protocol", s.Protocol) >>
                          ELSE <<>>)
                 /\ Cardinality(LinesWithKey(b, "Protocol")) =
                      (IF s.Protocol # Unset THEN 1 ELSE 0)

\* A sidecar with a protocol and no port: the protocol is dropped.
C7_Witness ==
    /\ Compiled
    /\ Len(sidecars) = 1
    /\ sidecars[1].Port = Unset /\ sidecars[1].Protocol = "udp"
    /\ LinesWithKey(out, "Protocol") = {}

\* C8: the container blocks are the firelens_log_router block, first, exactly
\* when the log configuration is present, then one block per sidecar in the
\* order of the input list.
C8_RouterFirstThenSidecarsInOrder ==
    Compiled =>
      /\ out # <<>> => 1 \in BlockStarts(out)
      /\ BlockCountRight
      /\ logConfig.present =>
           /\ Block(out, 1)[1].value = "firelens_log_router"
           /\ HasSection(Block(out, 1), "FirelensConfiguration")
           /\ Block(out, 1)[2] = Line(2, FALSE, "Image", logConfig.Image)
      /\ \A j \in 1..NumBlocks(out) :
           (j > 1 \/ ~logConfig.present) =>
              /\ ~HasSection(Block(out, j), "FirelensConfiguration")
              /\ Block(out, j)[1].value # "firelens_log_router"
      /\ \A i \in 1..Len(sidecars) :
           /\ SidecarBlockOf(i)[1] = Line(0, TRUE, "Name", sidecars[i].Name)
           /\ SidecarBlockOf(i)[2] = Line(2, FALSE, "Image", sidecars[i].Image)
           /\ HasSection(SidecarBlockOf(i), "PortMappings")
                <=> sidecars[i].Port # Unset
           /\ HasSection(SidecarBlockOf(i), "Environment")
                <=> DOMAIN sidecars[i].Variables # {}

\* A log router and two sidecars that sorting by name would swap.
C8_Witness ==
    /\ Compiled
    /\ logConfig.present
    /\ Len(sidecars) = 2
    /\ sidecars[1].Name = "nginx" /\ sidecars[2].Name = "envoy"
    /\ NumBlocks(out) = 3
    /\ Block(out, 2)[1].value = "nginx"
    /\ Block(out, 3)[1].value = "envoy"

\* The order of the sections of a sidecar block.
SectionOrder ==
    << "Name", "Image", "Essential", "PortMappings", "Environment", "Secrets",
       "LogConfiguration", "RepositoryCredentials", "MountPoints" >>

Rank(key) == CHOOSE r \in 1..Len(SectionOrder) : SectionOrder[r] = key

\* C9: the sections of every sidecar block are among Name, Image, Essential,
\* PortMappings, Environment, Secrets, LogConfiguration,
\* RepositoryCredentials and MountPoints and appear in that order, each at
\* most once; Name, Image and the awslogs LogConfiguration are always there.
C9_SectionOrder ==
    Compiled =>
      \A i \in 1..Len(sidecars) :
        LET b   == SidecarBlockOf(i)
            sec == Sections(b)
        IN  /\ \A k \in 1..Len(sec) :
                 \E r \in 1..Len(SectionOrder) : SectionOrder[r] = sec[k]
            /\ \A k \in 1..(Len(sec) - 1) : Rank(sec[k]) < Rank(sec[k + 1])
            /\ HasSection(b, "Name")
            /\ HasSection(b, "Image")
            /\ HasSection(b, "LogConfiguration")
            /\ SectionBody(b, "LogConfiguration") =
                 << Line(4, FALSE, "LogDriver", "awslogs"),
                    Line(4, FALSE, "Options", ""),
                    Line(6, FALSE, "awslogs-region", "!Ref AWS::Region"),
                    Line(6, FALSE, "awslogs-group", "!Ref LogGroup"),
                    Line(6, FALSE, "awslogs-stream-prefix", "copilot") >>

\* A sidecar block with all nine sections.
C9_Witness ==
    /\ Compiled
    /\ Len(sidecars) = 1
    /\ Sections(SidecarBlockOf(1)) = SectionOrder

=============================================================================
